---- MODULE Spec2Model ----
(***************************************************************************)
(* A model of scripts/generate_calendar.py: the one-shot pipeline that     *)
(* fetches the BLS schedule page and the BEA release_dates.json, adds the  *)
(* hard-coded FOMC days, converts everything to Taipei time and writes an  *)
(* iCalendar document.                                                     *)
(*                                                                         *)
(* Text is modelled as a sequence of Unicode code points (Python str), so  *)
(* that len(), slicing, str.lower(), re and the UTF-8 encoding can each be *)
(* computed the way the interpreter computes them.  An aware datetime is a *)
(* record of its wall-clock fields and its UTC offset in minutes; two of   *)
(* them compare, hash and sort by the instant they denote.                 *)
(***************************************************************************)
EXTENDS Integers, Sequences, FiniteSets, TLC

VARIABLES
    pc,          \* where the run is: a position in main() or in the function under study
    caller,      \* who called _get_with_retries: "bls", "bea", or "none"
    retries,     \* _get_with_retries: the retries argument
    backoff_sec, \* _get_with_retries: the backoff argument, in tenths of a second
    attempt,     \* _get_with_retries: the loop variable i
    outcomes,    \* _get_with_retries: the outcome of every requests.get made so far
    sleeps,      \* _get_with_retries: every delay passed to time.sleep, in tenths of a second
    rows_left,   \* fetch_bls_cpi_and_nfp: rows of the table not yet iterated
    tr,          \* fetch_bls_cpi_and_nfp: the row handled last (its columns' text)
    cpi_tp,      \* fetch_bls_cpi_and_nfp: the CPI list
    nfp_tp,      \* fetch_bls_cpi_and_nfp: the NFP list
    samples,     \* fetch_bls_cpi_and_nfp: normalised release titles seen
    fomc_tp,     \* build_events: the list fomc_statement_times_tp returned
    data,        \* fetch_bea_gdp_and_pio: the keys of the JSON document, in document order
    gdp_key,     \* fetch_bea_gdp_and_pio: the key _find_key resolved for GDP
    pio_key,     \* fetch_bea_gdp_and_pio: the key _find_key resolved for PIO
    which,       \* fetch_bea_gdp_and_pio: the _parse_dates call in progress
    raw_left,    \* _parse_dates: entries of raw_dates not yet iterated
    entry,       \* _parse_dates: the entry handled last
    out,         \* _parse_dates: the list being built
    gdp_tp,      \* fetch_bea_gdp_and_pio: the GDP list
    pio_tp,      \* fetch_bea_gdp_and_pio: the PIO list
    events,      \* build_events: the event list
    ics,         \* main: the document build_ics returned
    out_file,    \* the output file: NoFile, or the text written to it
    err,         \* the exception that ended the run, or NoErr
    line,        \* _fold_ics_line: the argument
    folded,      \* _fold_ics_line: the value returned
    dt_in,       \* timezone conversion: the New York wall-clock datetime
    dt_out,      \* timezone conversion: the Taipei datetime
    ev_a,        \* _stable_uid: first event
    ev_b,        \* _stable_uid: second event
    uid_a,       \* _stable_uid: identifier of the first event
    uid_b        \* _stable_uid: identifier of the second event

vars == <<pc, caller, retries, backoff_sec, attempt, outcomes, sleeps,
          rows_left, tr, cpi_tp, nfp_tp, samples, fomc_tp,
          data, gdp_key, pio_key, which, raw_left, entry, out, gdp_tp, pio_tp,
          events, ics, out_file, err,
          line, folded, dt_in, dt_out, ev_a, ev_b, uid_a, uid_b>>

getVars  == <<caller, retries, backoff_sec, attempt, outcomes, sleeps>>
blsVars  == <<rows_left, tr, cpi_tp, nfp_tp, samples>>
beaVars  == <<data, gdp_key, pio_key, which, raw_left, entry, out, gdp_tp, pio_tp>>
mainVars == <<fomc_tp, events, ics, out_file, err>>
pureVars == <<line, folded, dt_in, dt_out, ev_a, ev_b, uid_a, uid_b>>

----------------------------------------------------------------------------
(* Bounds of the model *)

\* rows of the BLS table
MaxRows == 3
\* keys of the BEA document
MaxKeys == 2
\* entries of one release_dates list
MaxEntries == 2
\* the retries argument of _get_with_retries ranges over 0..MaxRetries
MaxRetries == 6
\* _fold_ics_line is applied to generated lines of 0..MaxLineLen code points
MaxLineLen == 160

----------------------------------------------------------------------------
(* Generic helpers *)

Min(a, b) == IF a < b THEN a ELSE b

\* s[:n]
Take(s, n) == SubSeq(s, 1, Min(n, Len(s)))

\* s[n:]
Drop(s, n) == SubSeq(s, Min(n, Len(s)) + 1, Len(s))

Range(s) == {s[i] : i \in 1..Len(s)}

RECURSIVE Flatten(_)
\* the concatenation of a sequence of sequences
Flatten(ss) == IF ss = <<>> THEN <<>> ELSE Head(ss) \o Flatten(Tail(ss))

RECURSIVE Join(_, _)
\* sep.join(parts)
Join(sep, parts) ==
    IF parts = <<>> THEN <<>>
    ELSE IF Len(parts) = 1 THEN Head(parts)
    ELSE Head(parts) \o sep \o Join(sep, Tail(parts))

----------------------------------------------------------------------------
(* Text: a str is a sequence of code points *)

\* str.isspace() and the regular expression class \s agree on these code points
SpaceSet ==
    {9, 10, 11, 12, 13, 28, 29, 30, 31, 32, 133, 160, 5760, 8232, 8233, 8239,
     8287, 12288} \cup (8192..8202)

\* [A-Za-z]
AlphaSet == (65..90) \cup (97..122)

\* \d, restricted to the ASCII digits
DigitSet == 48..57

\* \w, restricted to ASCII: letters, digits and the underscore
WordSet == AlphaSet \cup DigitSet \cup {95}

\* str.lower() of one code point (the cased code points of the model are ASCII)
LowerChar(c) == IF c \in 65..90 THEN c + 32 ELSE c

\* s.lower()
Lower(s) == [i \in 1..Len(s) |-> LowerChar(s[i])]

RECURSIVE LStrip(_)
LStrip(s) == IF s # <<>> /\ Head(s) \in SpaceSet THEN LStrip(Tail(s)) ELSE s

RECURSIVE RStrip(_)
RStrip(s) ==
    IF s # <<>> /\ s[Len(s)] \in SpaceSet THEN RStrip(SubSeq(s, 1, Len(s) - 1)) ELSE s

\* s.strip()
Strip(s) == RStrip(LStrip(s))

RECURSIVE CollapseSpaces(_)
\* re.sub(r"\s+", " ", s): every maximal run of whitespace becomes one space
CollapseSpaces(s) ==
    IF s = <<>> THEN <<>>
    ELSE IF Head(s) \in SpaceSet
         THEN <<32>> \o CollapseSpaces(LStrip(s))
         ELSE <<Head(s)>> \o CollapseSpaces(Tail(s))

\* norm / _norm: re.sub(r"\s+", " ", s.strip()).lower()
Norm(s) == Lower(CollapseSpaces(Strip(s)))

\* whether t occurs in s at index i (1-based)
OccursAt(t, s, i) == i >= 1 /\ i + Len(t) - 1 <= Len(s) /\ SubSeq(s, i, i + Len(t) - 1) = t

\* t in s
Contains(s, t) == \E i \in 1..(Len(s) + 1) : OccursAt(t, s, i)

\* re.search(r"\b" + t + r"\b", s) is not None, for a t that starts and ends with a
\* word character: an occurrence with no word character right before or after it
ContainsWord(s, t) ==
    \E i \in 1..(Len(s) + 1) :
        /\ OccursAt(t, s, i)
        /\ (i = 1 \/ s[i - 1] \notin WordSet)
        /\ (i + Len(t) > Len(s) \/ s[i + Len(t)] \notin WordSet)

RECURSIVE RunEnd(_, _, _)
\* the index just past the maximal run of code points of C that starts at index i
RunEnd(s, i, C) == IF i <= Len(s) /\ s[i] \in C THEN RunEnd(s, i + 1, C) ELSE i

RECURSIVE DecValue(_)
\* int(s) of a string of ASCII digits
DecValue(s) == IF s = <<>> THEN 0 ELSE DecValue(SubSeq(s, 1, Len(s) - 1)) * 10 + (s[Len(s)] - 48)

RECURSIVE Dec(_)
\* str(n) of a natural number
Dec(n) == IF n < 10 THEN <<48 + n>> ELSE Dec(n \div 10) \o <<48 + (n % 10)>>

\* n formatted with at least w digits, zero padded (%02d, %04d)
Pad(n, w) == LET d == Dec(n) IN [i \in 1..(w - Min(w, Len(d))) |-> 48] \o d

\* s.encode("utf-8") of one code point
Utf8Char(c) ==
    IF c < 128 THEN <<c>>
    ELSE IF c < 2048 THEN <<192 + (c \div 64), 128 + (c % 64)>>
    ELSE IF c < 65536 THEN <<224 + (c \div 4096), 128 + ((c \div 64) % 64), 128 + (c % 64)>>
    ELSE <<240 + (c \div 262144), 128 + ((c \div 4096) % 64),
           128 + ((c \div 64) % 64), 128 + (c % 64)>>

\* s.encode("utf-8")
Utf8(s) == Flatten([i \in 1..Len(s) |-> Utf8Char(s[i])])

\* len(s.encode("utf-8")): the number of octets of s in the encoding the file is
\* written in; one for each code point and one more for each that needs two, three
\* or four
Octets(s) ==
    Len(s) + Cardinality({i \in 1..Len(s) : s[i] >= 128})
           + Cardinality({i \in 1..Len(s) : s[i] >= 2048})
           + Cardinality({i \in 1..Len(s) : s[i] >= 65536})

----------------------------------------------------------------------------
(* Dates, zones and aware datetimes *)

\* YEAR
YEAR == 2026

\* ALARMS_MINUTES
ALARMS_MINUTES == <<30, 60>>

\* DEFAULT_DURATION_MIN
DEFAULT_DURATION_MIN == 15

\* FOMC_DURATION_MIN
FOMC_DURATION_MIN == 30

\* FOMC_STATEMENT_DATES_2026, each "YYYY-MM-DD" as <<year, month, day>>
FOMC_STATEMENT_DATES_2026 ==
    << <<2026, 1, 28>>, <<2026, 3, 18>>, <<2026, 4, 29>>, <<2026, 6, 17>>,
       <<2026, 7, 29>>, <<2026, 9, 16>>, <<2026, 10, 28>>, <<2026, 12, 9>> >>

IsLeap(y) == (y % 4 = 0 /\ y % 100 # 0) \/ y % 400 = 0

DaysInMonth(y, m) ==
    IF m = 2 THEN (IF IsLeap(y) THEN 29 ELSE 28)
    ELSE IF m \in {4, 6, 9, 11} THEN 30 ELSE 31

\* days from 1970-01-01 to the proleptic Gregorian date y-m-d
DaysFromCivil(y, m, d) ==
    LET yy  == IF m <= 2 THEN y - 1 ELSE y
        era == yy \div 400
        yoe == yy - era * 400
        mp  == IF m > 2 THEN m - 3 ELSE m + 9
        doy == (153 * mp + 2) \div 5 + d - 1
        doe == yoe * 365 + yoe \div 4 - yoe \div 100 + doy
    IN  era * 146097 + doe - 719468

\* the proleptic Gregorian date that is z days after 1970-01-01
CivilFromDays(z) ==
    LET zz  == z + 719468
        era == zz \div 146097
        doe == zz - era * 146097
        yoe == (doe - doe \div 1460 + doe \div 36524 - doe \div 146096) \div 365
        doy == doe - (365 * yoe + yoe \div 4 - yoe \div 100)
        mp  == (5 * doy + 2) \div 153
        d   == doy - (153 * mp + 2) \div 5 + 1
        m   == IF mp < 10 THEN mp + 3 ELSE mp - 9
        y   == yoe + era * 400 + (IF m <= 2 THEN 1 ELSE 0)
    IN  [year |-> y, month |-> m, day |-> d]

\* 0 is Sunday; 1970-01-01 was a Thursday
Weekday(days) == (days + 4) % 7

\* days from 1970-01-01 to the first Sunday on or after y-m-d
SundayOnOrAfter(y, m, d) ==
    LET z == DaysFromCivil(y, m, d) IN z + ((7 - Weekday(z)) % 7)

\* the wall clock of a datetime as minutes from 1970-01-01T00:00 of its own zone
WallMinutes(dt) ==
    DaysFromCivil(dt.year, dt.month, dt.day) * 1440 + dt.hour * 60 + dt.minute

\* the wall-clock fields of a count of wall minutes
WallFields(w) ==
    LET c == CivilFromDays(w \div 1440)
    IN  [year |-> c.year, month |-> c.month, day |-> c.day,
         hour |-> (w % 1440) \div 60, minute |-> w % 60]

\* a faulty variant of TZ_NY: a fixed offset of UTC-5, no daylight saving time
FixedEasternOffset(wall) == -300

\* utcoffset, in minutes, that TZ_NY gives a wall clock (fold = 0): daylight saving
\* time runs from the second Sunday of March, 02:00 standard time, to the first
\* Sunday of November, 02:00 daylight time (the rule in force since 2007).  A wall
\* clock in the skipped hour keeps the offset before the change, one in the repeated
\* hour is taken as the first of the two.
TZ_NY(wall) ==
    LET w     == WallMinutes(wall)
        start == SundayOnOrAfter(wall.year, 3, 8) * 1440 + 180
        end   == SundayOnOrAfter(wall.year, 11, 1) * 1440 + 120
    IN  IF start <= w /\ w < end THEN -240 ELSE -300

\* utcoffset, in minutes, of TZ_TAIPEI: UTC+8 the whole year, no daylight saving
TZ_TAIPEI == 480

\* naive.replace(tzinfo=tz): the wall clock as it is, with the zone's offset for it
Aware(wall, off) ==
    [year |-> wall.year, month |-> wall.month, day |-> wall.day,
     hour |-> wall.hour, minute |-> wall.minute, off |-> off]

\* the instant an aware datetime denotes, in minutes from 1970-01-01T00:00Z:
\* what ==, hash() and < of aware datetimes go by
Instant(dt) == WallMinutes(dt) - dt.off

\* dt.astimezone(TZ_TAIPEI): the same instant on the Taipei wall clock
AsTaipei(dt) == Aware(WallFields(Instant(dt) + TZ_TAIPEI), TZ_TAIPEI)

\* dt + timedelta(minutes=n): wall-clock arithmetic in the datetime's own zone
PlusMinutes(dt, n) == Aware(WallFields(WallMinutes(dt) + n), dt.off)

\* dt.strftime("%Y%m%dT%H%M%S") (the seconds of every modelled datetime are 0)
_fmt_local(dt) ==
    Pad(dt.year, 4) \o Pad(dt.month, 2) \o Pad(dt.day, 2) \o <<84>>
        \o Pad(dt.hour, 2) \o Pad(dt.minute, 2) \o <<48, 48>>

\* dt.isoformat() of an aware datetime: YYYY-MM-DDTHH:MM:SS+HH:MM
IsoFormat(dt) ==
    LET a == IF dt.off < 0 THEN -dt.off ELSE dt.off
    IN  Pad(dt.year, 4) \o <<45>> \o Pad(dt.month, 2) \o <<45>> \o Pad(dt.day, 2)
            \o <<84>> \o Pad(dt.hour, 2) \o <<58>> \o Pad(dt.minute, 2) \o <<58, 48, 48>>
            \o <<(IF dt.off < 0 THEN 45 ELSE 43)>>
            \o Pad(a \div 60, 2) \o <<58>> \o Pad(a % 60, 2)

\* the strictly ascending sequence of the instants of a set of datetimes
RECURSIVE SortSet(_)
SortSet(S) ==
    IF S = {} THEN <<>>
    ELSE LET m == CHOOSE x \in S : \A y \in S : Instant(x) <= Instant(y)
         IN  <<m>> \o SortSet(S \ {m})

\* a faulty variant of SortedSet: the list as it was collected
AsCollected(xs) == xs

\* sorted(set(xs)): one datetime per instant, ascending
SortedSet(xs) == SortSet(Range(xs))

----------------------------------------------------------------------------
(* The string literals of the program, as code points *)

\* line 355: "\u7F8E\u570B CPI \u516C\u4F48\uFF08BLS\uFF09"
SUMMARY_CPI == <<32654, 22283, 32, 67, 80, 73, 32, 20844, 20296, 65288, 66, 76, 83,
    65289>>

\* line 364: "\u7F8E\u570B \u975E\u8FB2/\u5C31\u696D\u5831\u544A NFP\uFF08BLS Employment Situation\uFF09"
SUMMARY_NFP == <<32654, 22283, 32, 38750, 36786, 47, 23601, 26989, 22577, 21578, 32,
    78, 70, 80, 65288, 66, 76, 83, 32, 69, 109, 112, 108, 111, 121, 109, 101, 110, 116,
    32, 83, 105, 116, 117, 97, 116, 105, 111, 110, 65289>>

\* line 374: "FOMC \u5229\u7387\u6C7A\u8B70\u8072\u660E\uFF08Fed\uFF09"
SUMMARY_FOMC == <<70, 79, 77, 67, 32, 21033, 29575, 27770, 35696, 32882, 26126,
    65288, 70, 101, 100, 65289>>

\* line 386: "\u7F8E\u570B GDP \u767C\u5E03\uFF08BEA\uFF09"
SUMMARY_GDP == <<32654, 22283, 32, 71, 68, 80, 32, 30332, 24067, 65288, 66, 69, 65,
    65289>>

\* line 395: "\u7F8E\u570B PCE/\u500B\u4EBA\u6240\u5F97\u8207\u652F\u51FA\uFF08BEA\uFF09"
SUMMARY_PIO == <<32654, 22283, 32, 80, 67, 69, 47, 20491, 20154, 25152, 24471,
    33287, 25903, 20986, 65288, 66, 69, 65, 65289>>

\* line 316: "Gross Domestic Product"
TARGET_GDP == <<71, 114, 111, 115, 115, 32, 68, 111, 109, 101, 115, 116, 105, 99,
    32, 80, 114, 111, 100, 117, 99, 116>>

\* line 317: "Personal Income and Outlays"
TARGET_PIO == <<80, 101, 114, 115, 111, 110, 97, 108, 32, 73, 110, 99, 111, 109,
    101, 32, 97, 110, 100, 32, 79, 117, 116, 108, 97, 121, 115>>

\* calendar.month_name, lower-cased: what strptime's %B accepts, ignoring case
MonthNames ==
    << <<106, 97, 110, 117, 97, 114, 121>>,
       <<102, 101, 98, 114, 117, 97, 114, 121>>,
       <<109, 97, 114, 99, 104>>,
       <<97, 112, 114, 105, 108>>,
       <<109, 97, 121>>,
       <<106, 117, 110, 101>>,
       <<106, 117, 108, 121>>,
       <<97, 117, 103, 117, 115, 116>>,
       <<115, 101, 112, 116, 101, 109, 98, 101, 114>>,
       <<111, 99, 116, 111, 98, 101, 114>>,
       <<110, 111, 118, 101, 109, 98, 101, 114>>,
       <<100, 101, 99, 101, 109, 98, 101, 114>> >>
----------------------------------------------------------------------------

----------------------------------------------------------------------------
(* hashlib.sha1: SHA-1 (FIPS 180-4).  A 32-bit word is the pair <<hi, lo>> of its
   16-bit halves; the bitwise operations go nibble by nibble. *)

\* bit k (0 is the lowest) of the number x
Bit(x, k) == (x \div (2 ^ k)) % 2

\* a ^ b and a & b of two 4-bit numbers
XorNib == [a \in 0..15 |-> [b \in 0..15 |->
    ((Bit(a, 0) + Bit(b, 0)) % 2) + 2 * ((Bit(a, 1) + Bit(b, 1)) % 2)
        + 4 * ((Bit(a, 2) + Bit(b, 2)) % 2) + 8 * ((Bit(a, 3) + Bit(b, 3)) % 2)]]

AndNib == [a \in 0..15 |-> [b \in 0..15 |->
    (Bit(a, 0) * Bit(b, 0)) + 2 * (Bit(a, 1) * Bit(b, 1))
        + 4 * (Bit(a, 2) * Bit(b, 2)) + 8 * (Bit(a, 3) * Bit(b, 3))]]

\* nibble k (0 is the lowest) of the 16-bit number x
Nib(x, k) == (x \div (16 ^ k)) % 16

\* a ^ b and a & b of two 16-bit numbers
Xor16(a, b) ==
    XorNib[Nib(a, 0)][Nib(b, 0)] + 16 * XorNib[Nib(a, 1)][Nib(b, 1)]
        + 256 * XorNib[Nib(a, 2)][Nib(b, 2)] + 4096 * XorNib[Nib(a, 3)][Nib(b, 3)]

And16(a, b) ==
    AndNib[Nib(a, 0)][Nib(b, 0)] + 16 * AndNib[Nib(a, 1)][Nib(b, 1)]
        + 256 * AndNib[Nib(a, 2)][Nib(b, 2)] + 4096 * AndNib[Nib(a, 3)][Nib(b, 3)]

\* x ^ y, x & y and ~x of 32-bit words
Xor32(x, y) == <<Xor16(x[1], y[1]), Xor16(x[2], y[2])>>
And32(x, y) == <<And16(x[1], y[1]), And16(x[2], y[2])>>
Not32(x) == <<65535 - x[1], 65535 - x[2]>>

\* the word of the two halves' sums hi and lo, modulo 2^32
Carry(hi, lo) == <<(hi + (lo \div 65536)) % 65536, lo % 65536>>

\* x + y modulo 2^32
Add32(x, y) == Carry(x[1] + y[1], x[2] + y[2])

\* x rotated left by n bits, 0 < n < 16
RotlSmall(x, n) ==
    << ((x[1] * (2 ^ n)) % 65536) + (x[2] \div (2 ^ (16 - n))),
       ((x[2] * (2 ^ n)) % 65536) + (x[1] \div (2 ^ (16 - n))) >>

\* x rotated left by n bits, 0 < n < 32, n # 16
Rotl(x, n) == IF n < 16 THEN RotlSmall(x, n) ELSE RotlSmall(<<x[2], x[1]>>, n - 16)

\* the round function f_t(b, c, d)
ShaF(t, b, c, d) ==
    IF t < 20 THEN Xor32(And32(b, c), And32(Not32(b), d))
    ELSE IF t < 40 \/ t >= 60 THEN Xor32(Xor32(b, c), d)
    ELSE Xor32(Xor32(And32(b, c), And32(b, d)), And32(c, d))

\* the round constant K_t: 5A827999, 6ED9EBA1, 8F1BBCDC, CA62C1D6
ShaK(t) ==
    IF t < 20 THEN <<23170, 31129>>
    ELSE IF t < 40 THEN <<28377, 60321>>
    ELSE IF t < 60 THEN <<36635, 48348>>
    ELSE <<51810, 49622>>

\* the message with its padding: 0x80, zeros up to 56 modulo 64, and the length in
\* bits as 8 big-endian bytes (messages of the model are shorter than 2^13 bytes)
ShaPad(msg) ==
    msg \o <<128>> \o [i \in 1..((119 - Len(msg)) % 64) |-> 0]
        \o <<0, 0, 0, 0, 0, 0, (Len(msg) * 8) \div 256, (Len(msg) * 8) % 256>>

\* the big-endian word at byte offset o (0-based) of p
WordAt(p, o) == <<p[o + 1] * 256 + p[o + 2], p[o + 3] * 256 + p[o + 4]>>

RECURSIVE ShaSchedule(_)
\* the message schedule W, extended from its first 16 words to 80
ShaSchedule(w) ==
    IF Len(w) >= 80 THEN w
    ELSE ShaSchedule(Append(w,
            Rotl(Xor32(Xor32(w[Len(w) - 2], w[Len(w) - 7]),
                       Xor32(w[Len(w) - 13], w[Len(w) - 15])), 1)))

\* one round: the working variables <<a, b, c, d, e>> after round t
ShaRound(v, t, w) ==
    << Add32(Add32(Add32(Rotl(v[1], 5), ShaF(t, v[2], v[3], v[4])), Add32(v[5], ShaK(t))), w[t + 1]),
       v[1], Rotl(v[2], 30), v[3], v[4] >>

RECURSIVE ShaRounds(_, _, _)
\* the working variables <<a, b, c, d, e>> after rounds t..79
ShaRounds(v, t, w) ==
    IF t = 80 \/ Len(v) # 5 THEN v ELSE ShaRounds(ShaRound(v, t, w), t + 1, w)

\* the hash value after one more block: the old value plus the working variables
ShaAdd(h, v) == [i \in 1..5 |-> Add32(h[i], v[i])]

RECURSIVE ShaBlocks(_, _, _)
\* the hash value after the blocks of p from byte offset o on
ShaBlocks(h, p, o) ==
    IF o >= Len(p) THEN h
    ELSE ShaBlocks(
            ShaAdd(h, ShaRounds(h, 0, ShaSchedule([i \in 1..16 |-> WordAt(p, o + 4 * (i - 1))]))),
            p, o + 64)

\* the initial hash value: 67452301 EFCDAB89 98BADCFE 10325476 C3D2E1F0
ShaInit ==
    << <<26437, 8961>>, <<61389, 43913>>, <<39098, 56574>>, <<4146, 21622>>, <<50130, 57840>> >>

\* the digest of the bytes msg, as five words
Sha1(msg) == ShaBlocks(ShaInit, ShaPad(msg), 0)

\* one hexadecimal digit, lower case
HexDigit(n) == IF n < 10 THEN 48 + n ELSE 87 + n

\* the four hexadecimal digits of a 16-bit number
Hex16(x) == <<HexDigit(Nib(x, 3)), HexDigit(Nib(x, 2)), HexDigit(Nib(x, 1)), HexDigit(Nib(x, 0))>>

\* hexdigest() of the five words h
HexDigest(h) == Flatten([i \in 1..10 |-> Hex16(h[(i + 1) \div 2][2 - (i % 2)])])

----------------------------------------------------------------------------
(* _stable_uid *)

\* a faulty variant of UidBase: the start is left out of the hashed text
UidBaseNoStart(summary, dtstart) == summary \o <<124>>

\* base = f"{summary}|{dtstart.isoformat()}"
UidBase(summary, dtstart) == summary \o <<124>> \o IsoFormat(dtstart)

\* hashlib.sha1(base.encode("utf-8")).hexdigest()[:20]
UidHash(base) == Take(HexDigest(Sha1(Utf8(base))), 20)

\* _stable_uid(summary, dtstart), computed: "fin-" + digest + "@zeuscheng.github.io"
Sha1Uid(summary, dtstart) ==
    <<102, 105, 110, 45>> \o UidHash(UidBase(summary, dtstart))
        \o <<64, 122, 101, 117, 115, 99, 104, 101, 110, 103, 46, 103, 105, 116, 104,
             117, 98, 46, 105, 111>>

\* the titles the program gives its events
SummarySet == {SUMMARY_CPI, SUMMARY_NFP, SUMMARY_FOMC, SUMMARY_GDP, SUMMARY_PIO}

\* a Taipei datetime
Taipei(y, mo, d, h, mi) ==
    [year |-> y, month |-> mo, day |-> d, hour |-> h, minute |-> mi, off |-> TZ_TAIPEI]

\* start instants of events: those the inputs of the model lead to, and three more
\* that differ from one of them in the minute, the hour or the day only
StartSet ==
    { Taipei(2026, 1, 14, 21, 30), Taipei(2026, 6, 5, 20, 30),
      Taipei(2026, 1, 29, 21, 30), Taipei(2026, 4, 29, 20, 30),
      Taipei(2026, 1, 29, 3, 0), Taipei(2026, 3, 19, 2, 0), Taipei(2026, 4, 30, 2, 0),
      Taipei(2026, 6, 18, 2, 0), Taipei(2026, 7, 30, 2, 0), Taipei(2026, 9, 17, 2, 0),
      Taipei(2026, 10, 29, 2, 0), Taipei(2026, 12, 10, 3, 0),
      Taipei(2026, 1, 14, 21, 45), Taipei(2026, 1, 14, 20, 30), Taipei(2026, 1, 15, 21, 30) }

\* the identifiers of the summaries and starts above, computed once
UidTable == { <<p[1], p[2], Sha1Uid(p[1], p[2])>> : p \in SummarySet \X StartSet }

UidLookup(summary, dtstart) == CHOOSE r \in UidTable : r[1] = summary /\ r[2] = dtstart

_stable_uid(summary, dtstart) ==
    IF summary \in SummarySet /\ dtstart \in StartSet
    THEN UidLookup(summary, dtstart)[3]
    ELSE Sha1Uid(summary, dtstart)

\* uid = _stable_uid(ev.summary, ev.start_tp), in the line "UID:" + uid
UidLine(ev) == <<85, 73, 68, 58>> \o _stable_uid(ev.summary, ev.start_tp)
----------------------------------------------------------------------------
(* fetch_bls_cpi_and_nfp: the pure parts *)

NoMatch == [kind |-> "none"]

\* date_pat is ([A-Za-z]+)\s+(\d{1,2}),\s+(\d{4}).  Every quantifier is greedy and
\* what follows each run cannot start with a code point of the run's own class, so
\* backtracking never helps: the letters and each whitespace run are maximal, the day
\* is a run of one or two digits directly followed by the comma, the year is the
\* first four digits of a run of at least four.  For a match tried at index i of s,
\* these are the indices just past the letters, the first whitespace, the day's
\* digits, the whitespace after the comma, and the year's digits.
PastLetters(s, i) == RunEnd(s, i, AlphaSet)
PastSpace1(s, i) == RunEnd(s, PastLetters(s, i), SpaceSet)
PastDay(s, i) == RunEnd(s, PastSpace1(s, i), DigitSet)
PastSpace2(s, i) == RunEnd(s, PastDay(s, i) + 1, SpaceSet)
PastYear(s, i) == RunEnd(s, PastSpace2(s, i), DigitSet)

\* the match of date_pat at index i whose parts end at a, b, c, d and e, if it is one
DatePatParts(s, i, a, b, c, d, e) ==
    IF /\ a > i
       /\ b > a
       /\ c - b \in {1, 2}
       /\ c <= Len(s) /\ s[c] = 44
       /\ d > c + 1
       /\ e - d >= 4
    THEN [kind |-> "match", month |-> SubSeq(s, i, a - 1), day |-> SubSeq(s, b, c - 1),
          year |-> SubSeq(s, d, d + 3)]
    ELSE NoMatch

\* date_pat matched at index i of s
DatePatAt(s, i) ==
    DatePatParts(s, i, PastLetters(s, i), PastSpace1(s, i), PastDay(s, i),
                 PastSpace2(s, i), PastYear(s, i))

\* the least element of a non-empty set of numbers
Least(S) == CHOOSE i \in S : \A j \in S : i <= j

\* the match at the least of the indices hits, or None when there is none
MatchAtFirst(s, hits) == IF hits = {} THEN NoMatch ELSE DatePatAt(s, Least(hits))

\* date_pat.search(s): the leftmost match, or None
date_pat(s) == MatchAtFirst(s, {i \in 1..Len(s) : DatePatAt(s, i).kind = "match"})

\* the one element of hits, or 0 when it is empty
OneOrZero(hits) == IF hits = {} THEN 0 ELSE CHOOSE k \in hits : TRUE

\* the month number of a %B field, or 0 when it is no full month name
MonthNumber(w) == OneOrZero({k \in 1..12 : MonthNames[k] = Lower(w)})

\* the date of month mo, day dd, year yy, or ValueError when there is none
DateOrError(mo, dd, yy) ==
    IF mo = 0 \/ dd < 1 \/ dd > 31 \/ yy < 1 \/ dd > DaysInMonth(yy, mo)
    THEN [kind |-> "ValueError"]
    ELSE [kind |-> "dt", year |-> yy, month |-> mo, day |-> dd]

\* datetime.strptime(m.group(0), "%B %d, %Y"): the date, or ValueError when the
\* letters are not a full month name, the day is not 1..31, the year is 0 or the
\* month does not have that day
strptime(m) == DateOrError(MonthNumber(m.month), DecValue(m.day), DecValue(m.year))

\* the wall clock h:mi on the day of d
At(d, h, mi) == [year |-> d.year, month |-> d.month, day |-> d.day, hour |-> h, minute |-> mi]

\* wall.replace(tzinfo=TZ_NY).astimezone(TZ_TAIPEI)
NewYorkToTaipei(wall) == AsTaipei(Aware(wall, TZ_NY(wall)))

\* the rest of to_taipei once strptime has returned or raised: 08:30 New York time
\* on that day, as a Taipei datetime; a ValueError is not caught
AtReleaseTime(d) ==
    IF d.kind = "ValueError" THEN d
    ELSE [kind |-> "dt", dt |-> NewYorkToTaipei(At(d, 8, 30))]

\* the rest of to_taipei once date_pat.search has returned m
FromMatch(m) == IF m.kind = "none" THEN NoMatch ELSE AtReleaseTime(strptime(m))

\* fetch_bls_cpi_and_nfp.to_taipei: None when the text holds no date
to_taipei(date_text) == FromMatch(date_pat(date_text))

\* fetch_bls_cpi_and_nfp.is_cpi
is_cpi(title) ==
    LET
        t == Norm(title)
        \* "consumer price index"
        T_CONSUMER_PRICE_INDEX == <<99, 111, 110, 115, 117, 109, 101, 114, 32, 112,
            114, 105, 99, 101, 32, 105, 110, 100, 101, 120>>
        \* "cpi"
        T_CPI == <<99, 112, 105>>
        \* "cpi-u"
        T_CPI_U == <<99, 112, 105, 45, 117>>
    IN  Contains(t, T_CONSUMER_PRICE_INDEX) \/ ContainsWord(t, T_CPI) \/ Contains(t, T_CPI_U)

\* fetch_bls_cpi_and_nfp.is_nfp
is_nfp(title) ==
    LET
        t == Norm(title)
        \* "employment situation"
        T_EMPLOYMENT_SITUATION == <<101, 109, 112, 108, 111, 121, 109, 101, 110,
            116, 32, 115, 105, 116, 117, 97, 116, 105, 111, 110>>
        \* "the employment situation"
        T_THE_EMPLOYMENT_SITUATION == <<116, 104, 101, 32, 101, 109, 112, 108, 111,
            121, 109, 101, 110, 116, 32, 115, 105, 116, 117, 97, 116, 105, 111, 110>>
    IN  Contains(t, T_EMPLOYMENT_SITUATION) \/ Contains(t, T_THE_EMPLOYMENT_SITUATION)

\* the end of one pass of the loop over the rows, with dt_tp and release decided
RowResult(dt_tp, release) ==
    [kind    |-> "row",
     dt_tp   |-> dt_tp,
     sample  |-> IF release # <<>> THEN <<Norm(release)>> ELSE <<>>,
     cpi     |-> is_cpi(release),
     nfp     |-> is_nfp(release)]

\* one pass when the first cell holds no date: to_taipei(" ".join(cols[1:])) gave
\* rest; the release is the first cell
RowByRest(cols, rest) ==
    IF rest.kind = "ValueError" THEN [kind |-> "raise"]
    ELSE IF rest.kind = "none" THEN [kind |-> "skip"]
    ELSE RowResult(rest.dt, cols[1])

\* one pass of a row of two or more cells: to_taipei(cols[0]) gave first; when it is
\* a date the release is the second cell
RowByFirst(cols, first) ==
    IF first.kind = "ValueError" THEN [kind |-> "raise"]
    ELSE IF first.kind = "dt" THEN RowResult(first.dt, cols[2])
    ELSE RowByRest(cols, to_taipei(Join(<<32>>, Tail(cols))))

\* One pass of the loop over the rows: what the row does to the three lists.
\* "skip" is a continue, "raise" the uncaught ValueError of to_taipei.
BlsRowStep(cols) ==
    IF Len(cols) < 2 THEN [kind |-> "skip"] ELSE RowByFirst(cols, to_taipei(cols[1]))

----------------------------------------------------------------------------
(* ICS helpers *)

CRLF == <<13, 10>>

\* the default of _fold_ics_line's limit argument
limit == 75

RECURSIVE FoldChunksNoSpace(_)
\* a faulty variant of FoldChunks: the continuation lines get no leading space
FoldChunksNoSpace(l) ==
    IF Len(l) > limit
    THEN <<Take(l, limit)>> \o FoldChunksNoSpace(Drop(l, limit))
    ELSE <<l>>

RECURSIVE FoldChunks(_)
\* the list out of _fold_ics_line at the end of its while loop and final append
FoldChunks(l) ==
    IF Len(l) > limit
    THEN <<Take(l, limit)>> \o FoldChunks(<<32>> \o Drop(l, limit))
    ELSE <<l>>

\* _fold_ics_line(line)
_fold_ics_line(l) == IF Len(l) <= limit THEN l ELSE Join(CRLF, FoldChunks(l))

RECURSIVE Replace(_, _, _)
\* s.replace(old, new), old not empty: leftmost occurrences, not overlapping
Replace(s, old, new) ==
    IF s = <<>> THEN <<>>
    ELSE IF OccursAt(old, s, 1) THEN new \o Replace(Drop(s, Len(old)), old, new)
    ELSE <<Head(s)>> \o Replace(Tail(s), old, new)

\* _escape_ics_text
_escape_ics_text(text) ==
    Replace(Replace(Replace(text, <<13, 10>>, <<10>>), <<13>>, <<10>>), <<10>>, <<92, 110>>)

\* Event(summary, start_tp, duration_min, description, categories)
Event(summary, start_tp, duration_min, description, categories) ==
    [summary |-> summary, start_tp |-> start_tp, duration_min |-> duration_min,
     description |-> description, categories |-> categories]

\* the five lines of one VALARM block
AlarmLines(ev, m) ==
    LET
        \* "BEGIN:VALARM"
        S_BEGIN_VALARM == <<66, 69, 71, 73, 78, 58, 86, 65, 76, 65, 82, 77>>
        \* "ACTION:DISPLAY"
        S_ACTION_DISPLAY == <<65, 67, 84, 73, 79, 78, 58, 68, 73, 83, 80, 76, 65,
            89>>
        \* "DESCRIPTION:\u63D0\u9192\uFF1A"
        S_ALARM_DESCRIPTION == <<68, 69, 83, 67, 82, 73, 80, 84, 73, 79, 78, 58,
            25552, 37266, 65306>>
        \* "TRIGGER:-PT"
        S_TRIGGER == <<84, 82, 73, 71, 71, 69, 82, 58, 45, 80, 84>>
        \* "END:VALARM"
        S_END_VALARM == <<69, 78, 68, 58, 86, 65, 76, 65, 82, 77>>
    IN  << S_BEGIN_VALARM,
           S_ACTION_DISPLAY,
           S_ALARM_DESCRIPTION \o ev.summary,
           S_TRIGGER \o Dec(m) \o <<77>>,
           S_END_VALARM >>

\* _event_to_ics_lines(ev), with the value datetime.now(tz=TZ_UTC) had
_event_to_ics_lines(ev, now) ==
    LET
        \* "BEGIN:VEVENT"
        S_BEGIN_VEVENT == <<66, 69, 71, 73, 78, 58, 86, 69, 86, 69, 78, 84>>
        \* "DTSTAMP:"
        S_DTSTAMP == <<68, 84, 83, 84, 65, 77, 80, 58>>
        \* "SUMMARY:"
        S_SUMMARY == <<83, 85, 77, 77, 65, 82, 89, 58>>
        \* "DTSTART;TZID=Asia/Taipei:"
        S_DTSTART == <<68, 84, 83, 84, 65, 82, 84, 59, 84, 90, 73, 68, 61, 65, 115,
            105, 97, 47, 84, 97, 105, 112, 101, 105, 58>>
        \* "DTEND;TZID=Asia/Taipei:"
        S_DTEND == <<68, 84, 69, 78, 68, 59, 84, 90, 73, 68, 61, 65, 115, 105, 97,
            47, 84, 97, 105, 112, 101, 105, 58>>
        \* "CATEGORIES:"
        S_CATEGORIES == <<67, 65, 84, 69, 71, 79, 82, 73, 69, 83, 58>>
        \* "DESCRIPTION:"
        S_DESCRIPTION == <<68, 69, 83, 67, 82, 73, 80, 84, 73, 79, 78, 58>>
        \* "END:VEVENT"
        S_END_VEVENT == <<69, 78, 68, 58, 86, 69, 86, 69, 78, 84>>
        dt_end == PlusMinutes(ev.start_tp, ev.duration_min)
    IN  << S_BEGIN_VEVENT,
           UidLine(ev),
           S_DTSTAMP \o _fmt_local(now) \o <<90>>,
           S_SUMMARY \o ev.summary,
           S_DTSTART \o _fmt_local(ev.start_tp),
           S_DTEND \o _fmt_local(dt_end) >>
        \o (IF ev.categories # <<>>
            THEN <<S_CATEGORIES \o Join(<<44>>, ev.categories)>> ELSE <<>>)
        \o (IF ev.description # <<>>
            THEN <<S_DESCRIPTION \o _escape_ics_text(ev.description)>> ELSE <<>>)
        \o Flatten([k \in 1..Len(ALARMS_MINUTES) |-> AlarmLines(ev, ALARMS_MINUTES[k])])
        \o <<S_END_VEVENT>>

\* the list header of build_ics
IcsHeader ==
    <<
       \* "BEGIN:VCALENDAR"
       <<66, 69, 71, 73, 78, 58, 86, 67, 65, 76, 69, 78, 68, 65, 82>>,
       \* "VERSION:2.0"
       <<86, 69, 82, 83, 73, 79, 78, 58, 50, 46, 48>>,
       \* "PRODID:-//ZeusCheng//US Macro Calendar 2026//ZH-TW"
       <<80, 82, 79, 68, 73, 68, 58, 45, 47, 47, 90, 101, 117, 115, 67, 104, 101,
           110, 103, 47, 47, 85, 83, 32, 77, 97, 99, 114, 111, 32, 67, 97, 108, 101,
           110, 100, 97, 114, 32, 50, 48, 50, 54, 47, 47, 90, 72, 45, 84, 87>>,
       \* "CALSCALE:GREGORIAN"
       <<67, 65, 76, 83, 67, 65, 76, 69, 58, 71, 82, 69, 71, 79, 82, 73, 65, 78>>,
       \* "METHOD:PUBLISH"
       <<77, 69, 84, 72, 79, 68, 58, 80, 85, 66, 76, 73, 83, 72>>,
       \* "X-WR-CALNAME:{YEAR} \u91CD\u5927\u7F8E\u570B\u91D1\u878D\u6578\u64DA\uFF08Taipei\uFF09"
       <<88, 45, 87, 82, 45, 67, 65, 76, 78, 65, 77, 69, 58>> \o Dec(YEAR) \o <<32,
           37325, 22823, 32654, 22283, 37329, 34701, 25976, 25818, 65288, 84, 97, 105,
           112, 101, 105, 65289>>,
       \* "X-WR-TIMEZONE:Asia/Taipei"
       <<88, 45, 87, 82, 45, 84, 73, 77, 69, 90, 79, 78, 69, 58, 65, 115, 105, 97,
           47, 84, 97, 105, 112, 101, 105>>
    >>

\* the list lines of build_ics before folding; the last line is "END:VCALENDAR"
IcsLines(evs, now) ==
    IcsHeader
    \o Flatten([k \in 1..Len(evs) |-> _event_to_ics_lines(evs[k], now)])
    \o << <<69, 78, 68, 58, 86, 67, 65, 76, 69, 78, 68, 65, 82>> >>

\* build_ics(events).  The str returned is every element of this sequence followed by
\* CRLF: "\r\n".join(_fold_ics_line(l) for l in lines) + "\r\n".  The document is kept
\* as the sequence of its CRLF-terminated pieces, one per logical line.
build_ics(evs, now) ==
    LET ls == IcsLines(evs, now)
    IN  [k \in 1..Len(ls) |-> _fold_ics_line(ls[k])]

----------------------------------------------------------------------------
(* fetch_bea_gdp_and_pio: the pure parts.  The result of a lookup is a sequence of
   at most one key: <<>> is None. *)

\* fetch_bea_gdp_and_pio._find_key, tier 1: target in data
FindExact(keys, target) == IF target \in Range(keys) THEN <<target>> ELSE <<>>

\* tier 2: the first key, in document order, with _norm(str(k)) == _norm(target)
FindNormEqual(keys, target) ==
    LET hits == {i \in 1..Len(keys) : Norm(keys[i]) = Norm(target)}
    IN  IF hits = {} THEN <<>> ELSE <<keys[CHOOSE i \in hits : \A j \in hits : i <= j]>>

\* tier 3: the first key, in document order, with _norm(target) in _norm(str(k))
FindNormContains(keys, target) ==
    LET hits == {i \in 1..Len(keys) : Contains(Norm(keys[i]), Norm(target))}
    IN  IF hits = {} THEN <<>> ELSE <<keys[CHOOSE i \in hits : \A j \in hits : i <= j]>>

\* a faulty variant of _find_key: the substring tier is tried before the
\* normalised-equality tier
FindKeySubstringFirst(keys, target) ==
    IF FindExact(keys, target) # <<>> THEN FindExact(keys, target)
    ELSE IF FindNormContains(keys, target) # <<>> THEN FindNormContains(keys, target)
    ELSE FindNormEqual(keys, target)

\* fetch_bea_gdp_and_pio._find_key
_find_key(keys, target) ==
    IF FindExact(keys, target) # <<>> THEN FindExact(keys, target)
    ELSE IF FindNormEqual(keys, target) # <<>> THEN FindNormEqual(keys, target)
    ELSE FindNormContains(keys, target)

\* One pass of the loop of _parse_dates: what the entry s appends to out.
\* An entry is not a str, a str fromisoformat rejects, or a str it parses.
ParseEntry(s) ==
    IF s.kind # "str" THEN <<>>
    ELSE IF ~s.iso THEN <<>>
    ELSE IF s.dt.year = YEAR THEN <<AsTaipei(s.dt)>>
    ELSE <<>>

----------------------------------------------------------------------------
(* build_events: the pure parts *)

\* fomc_statement_times_tp(year) for the supported year: each hard-coded day at
\* 14:00 New York time, as a Taipei datetime, in the order of the list
fomc_statement_times_tp(dates) ==
    [k \in 1..Len(dates) |->
        NewYorkToTaipei(At([year |-> dates[k][1], month |-> dates[k][2], day |-> dates[k][3]],
                           14, 0))]

\* the CPI events of build_events
CpiEvents(tps) ==
    LET
        \* "\u4F86\u6E90\uFF1ABLS schedule\uFF08{YEAR}\uFF1B08:30 ET\uFF0C\u5DF2\u63DB\u7B97\u53F0\u5317\u6642\u9593\uFF09"
        description == <<20358, 28304, 65306, 66, 76, 83, 32, 115, 99, 104, 101,
            100, 117, 108, 101, 65288>> \o Dec(YEAR) \o <<65307, 48, 56, 58, 51, 48, 32,
            69, 84, 65292, 24050, 25563, 31639, 21488, 21271, 26178, 38291, 65289>>
        \* "US", "CPI", "BLS"
        categories == << <<85, 83>>, <<67, 80, 73>>, <<66, 76, 83>> >>
    IN  [k \in 1..Len(tps) |-> Event(SUMMARY_CPI, tps[k], DEFAULT_DURATION_MIN, description, categories)]

\* the NFP events of build_events
NfpEvents(tps) ==
    LET
        \* "\u4F86\u6E90\uFF1ABLS schedule\uFF08{YEAR}\uFF1B08:30 ET\uFF0C\u5DF2\u63DB\u7B97\u53F0\u5317\u6642\u9593\uFF09"
        description == <<20358, 28304, 65306, 66, 76, 83, 32, 115, 99, 104, 101,
            100, 117, 108, 101, 65288>> \o Dec(YEAR) \o <<65307, 48, 56, 58, 51, 48, 32,
            69, 84, 65292, 24050, 25563, 31639, 21488, 21271, 26178, 38291, 65289>>
        \* "US", "NFP", "BLS"
        categories == << <<85, 83>>, <<78, 70, 80>>, <<66, 76, 83>> >>
    IN  [k \in 1..Len(tps) |-> Event(SUMMARY_NFP, tps[k], DEFAULT_DURATION_MIN, description, categories)]

\* the FOMC events of build_events
FomcEvents(tps) ==
    LET
        \* "\u4F86\u6E90\uFF1AFed FOMC calendar\uFF08{YEAR}\uFF1B\u5047\u8A2D 14:00 ET \u767C\u5E03\uFF0C\u5DF2\u63DB\u7B97\u53F0\u5317\u6642\u9593\uFF09"
        description == <<20358, 28304, 65306, 70, 101, 100, 32, 70, 79, 77, 67, 32,
            99, 97, 108, 101, 110, 100, 97, 114, 65288>> \o Dec(YEAR) \o <<65307, 20551,
            35373, 32, 49, 52, 58, 48, 48, 32, 69, 84, 32, 30332, 24067, 65292, 24050,
            25563, 31639, 21488, 21271, 26178, 38291, 65289>>
        \* "US", "FOMC", "Fed"
        categories == << <<85, 83>>, <<70, 79, 77, 67>>, <<70, 101, 100>> >>
    IN  [k \in 1..Len(tps) |-> Event(SUMMARY_FOMC, tps[k], FOMC_DURATION_MIN, description, categories)]

\* the GDP events of build_events
GdpEvents(tps) ==
    LET
        \* "\u4F86\u6E90\uFF1ABEA release_dates.json\uFF08{YEAR}\uFF1B\u539F\u59CB\u6642\u9593\u542B\u6642\u5340\uFF0C\u5DF2\u63DB\u7B97\u53F0\u5317\u6642\u9593\uFF09"
        description == <<20358, 28304, 65306, 66, 69, 65, 32, 114, 101, 108, 101,
            97, 115, 101, 95, 100, 97, 116, 101, 115, 46, 106, 115, 111, 110, 65288>> \o
            Dec(YEAR) \o <<65307, 21407, 22987, 26178, 38291, 21547, 26178, 21312,
            65292, 24050, 25563, 31639, 21488, 21271, 26178, 38291, 65289>>
        \* "US", "GDP", "BEA"
        categories == << <<85, 83>>, <<71, 68, 80>>, <<66, 69, 65>> >>
    IN  [k \in 1..Len(tps) |-> Event(SUMMARY_GDP, tps[k], DEFAULT_DURATION_MIN, description, categories)]

\* the PIO events of build_events
PioEvents(tps) ==
    LET
        \* "\u4F86\u6E90\uFF1ABEA release_dates.json\uFF08{YEAR}\uFF1B\u542B PCE\uFF1B\u5DF2\u63DB\u7B97\u53F0\u5317\u6642\u9593\uFF09"
        description == <<20358, 28304, 65306, 66, 69, 65, 32, 114, 101, 108, 101,
            97, 115, 101, 95, 100, 97, 116, 101, 115, 46, 106, 115, 111, 110, 65288>> \o
            Dec(YEAR) \o <<65307, 21547, 32, 80, 67, 69, 65307, 24050, 25563, 31639,
            21488, 21271, 26178, 38291, 65289>>
        \* "US", "PCE", "BEA"
        categories == << <<85, 83>>, <<80, 67, 69>>, <<66, 69, 65>> >>
    IN  [k \in 1..Len(tps) |-> Event(SUMMARY_PIO, tps[k], DEFAULT_DURATION_MIN, description, categories)]

RECURSIVE InsertByStart(_, _)
\* e put into a list sorted by start, after every element that does not start later
InsertByStart(sorted, e) ==
    IF sorted = <<>> THEN <<e>>
    ELSE IF Instant(Head(sorted).start_tp) <= Instant(e.start_tp)
         THEN <<Head(sorted)>> \o InsertByStart(Tail(sorted), e)
         ELSE <<e>> \o sorted

RECURSIVE SortByStart(_)
\* events.sort(key=lambda e: e.start_tp): a stable sort by the start instant
SortByStart(evs) ==
    IF evs = <<>> THEN <<>>
    ELSE InsertByStart(SortByStart(SubSeq(evs, 1, Len(evs) - 1)), evs[Len(evs)])

----------------------------------------------------------------------------
(* What the run reads from outside: the bounded sets the inputs are drawn from *)

\* rows of the schedule table, each the text of its cells (tr.find_all(["th", "td"])):
\* date first, release first with the date in a later cell, no date at all, a single
\* cell, a text that looks like a date and is none, a row with an empty release cell
RowSet ==
    LET
        \* "January 14, 2026"
        C_JAN14 == <<74, 97, 110, 117, 97, 114, 121, 32, 49, 52, 44, 32, 50, 48, 50,
            54>>
        \* "Friday, June 05, 2026"
        C_JUN05 == <<70, 114, 105, 100, 97, 121, 44, 32, 74, 117, 110, 101, 32, 48,
            53, 44, 32, 50, 48, 50, 54>>
        \* "February 30, 2026"
        C_FEB30 == <<70, 101, 98, 114, 117, 97, 114, 121, 32, 51, 48, 44, 32, 50,
            48, 50, 54>>
        \* "08:30 AM"
        C_TIME == <<48, 56, 58, 51, 48, 32, 65, 77>>
        \* "Consumer Price Index for December 2025"
        C_CPI_DEC == <<67, 111, 110, 115, 117, 109, 101, 114, 32, 80, 114, 105, 99,
            101, 32, 73, 110, 100, 101, 120, 32, 102, 111, 114, 32, 68, 101, 99, 101,
            109, 98, 101, 114, 32, 50, 48, 50, 53>>
        \* "  CPI  for All Urban Consumers"
        C_CPI_UP == <<32, 32, 67, 80, 73, 32, 32, 102, 111, 114, 32, 65, 108, 108,
            32, 85, 114, 98, 97, 110, 32, 67, 111, 110, 115, 117, 109, 101, 114, 115>>
        \* "Employment Situation for May 2026"
        C_NFP_MAY == <<69, 109, 112, 108, 111, 121, 109, 101, 110, 116, 32, 83, 105,
            116, 117, 97, 116, 105, 111, 110, 32, 102, 111, 114, 32, 77, 97, 121, 32,
            50, 48, 50, 54>>
        \* "Producer Price Index"
        C_PPI == <<80, 114, 111, 100, 117, 99, 101, 114, 32, 80, 114, 105, 99, 101,
            32, 73, 110, 100, 101, 120>>
    IN  { <<C_JAN14, C_CPI_DEC>>,
          <<C_NFP_MAY, C_JUN05, C_TIME>>,
          <<C_CPI_UP, C_TIME, C_JUN05>>,
          <<C_JAN14, C_NFP_MAY>>,
          <<C_PPI, C_TIME>>,
          <<C_TIME>>,
          <<C_FEB30, C_CPI_DEC>>,
          <<<<>>, C_JAN14>>,
          <<C_JUN05, C_PPI>> }

\* keys a JSON document may hold: each target as it is, in another case or spacing,
\* inside a longer key; and a key of another release
KeySet ==
    LET
        \* "Gross Domestic Product"
        K_GDP == <<71, 114, 111, 115, 115, 32, 68, 111, 109, 101, 115, 116, 105, 99,
            32, 80, 114, 111, 100, 117, 99, 116>>
        \* "gross  domestic product "
        K_GDP_LC == <<103, 114, 111, 115, 115, 32, 32, 100, 111, 109, 101, 115, 116,
            105, 99, 32, 112, 114, 111, 100, 117, 99, 116, 32>>
        \* "Gross Domestic Product by Industry"
        K_GDP_IND == <<71, 114, 111, 115, 115, 32, 68, 111, 109, 101, 115, 116, 105,
            99, 32, 80, 114, 111, 100, 117, 99, 116, 32, 98, 121, 32, 73, 110, 100, 117,
            115, 116, 114, 121>>
        \* "Personal Income and Outlays"
        K_PIO == <<80, 101, 114, 115, 111, 110, 97, 108, 32, 73, 110, 99, 111, 109,
            101, 32, 97, 110, 100, 32, 79, 117, 116, 108, 97, 121, 115>>
        \* "PERSONAL INCOME AND OUTLAYS"
        K_PIO_UC == <<80, 69, 82, 83, 79, 78, 65, 76, 32, 73, 78, 67, 79, 77, 69,
            32, 65, 78, 68, 32, 79, 85, 84, 76, 65, 89, 83>>
        \* "Revised Personal Income and Outlays"
        K_PIO_REV == <<82, 101, 118, 105, 115, 101, 100, 32, 80, 101, 114, 115, 111,
            110, 97, 108, 32, 73, 110, 99, 111, 109, 101, 32, 97, 110, 100, 32, 79, 117,
            116, 108, 97, 121, 115>>
        \* "Corporate Profits"
        K_CORP == <<67, 111, 114, 112, 111, 114, 97, 116, 101, 32, 80, 114, 111,
            102, 105, 116, 115>>
    IN  {K_GDP, K_GDP_LC, K_GDP_IND, K_PIO, K_PIO_UC, K_PIO_REV, K_CORP}

RECURSIVE DistinctSeqs(_, _)
\* the sequences of at most n distinct elements of S
DistinctSeqs(S, n) ==
    IF n = 0 THEN {<<>>}
    ELSE LET shorter == DistinctSeqs(S, n - 1)
         IN  shorter \cup UNION { {Append(q, x) : x \in S \ Range(q)} :
                                    q \in {p \in shorter : Len(p) = n - 1} }

\* what resp.json() may give: a body that is no JSON, a document that is no object,
\* or an object, known by its keys in document order (no key twice)
DocSet ==
    {[kind |-> "invalid", keys |-> <<>>], [kind |-> "notdict", keys |-> <<>>]}
        \cup {[kind |-> "dict", keys |-> ks] : ks \in DistinctSeqs(KeySet, MaxKeys)}

NoDt == [year |-> 0, month |-> 0, day |-> 0, hour |-> 0, minute |-> 0, off |-> 0]

NoEntry == [kind |-> "none", iso |-> FALSE, dt |-> NoDt]

IsoEntry(y, mo, d, h, mi, off) ==
    [kind |-> "str", iso |-> TRUE,
     dt |-> [year |-> y, month |-> mo, day |-> d, hour |-> h, minute |-> mi, off |-> off]]

\* entries of a release_dates list: a value that is no str; a str that is no ISO-8601
\* timestamp; "2026-01-29T08:30:00-05:00"; the same instant as
\* "2026-01-29T13:30:00+00:00"; "2026-04-29T08:30:00-04:00";
\* "2025-12-19T08:30:00-05:00", another year
EntrySet ==
    { [kind |-> "other", iso |-> FALSE, dt |-> NoDt],
      [kind |-> "str", iso |-> FALSE, dt |-> NoDt],
      IsoEntry(2026, 1, 29, 8, 30, -300),
      IsoEntry(2026, 1, 29, 13, 30, 0),
      IsoEntry(2026, 4, 29, 8, 30, -240),
      IsoEntry(2025, 12, 19, 8, 30, -300) }

\* what data.get(key, {}) and obj.get("release_dates", []) may be, for a resolved
\* key: no dict, a dict whose release_dates is no list, or a list of n entries
ObjSet ==
    {[kind |-> "notdict", n |-> 0], [kind |-> "nolist", n |-> 0]}
        \cup {[kind |-> "list", n |-> n] : n \in 0..MaxEntries}

\* values of datetime.now(tz=TZ_UTC)
NowSet ==
    { [year |-> 2026, month |-> 1, day |-> 2, hour |-> 3, minute |-> 4, off |-> 0],
      [year |-> 2026, month |-> 11, day |-> 3, hour |-> 23, minute |-> 59, off |-> 0] }

----------------------------------------------------------------------------
(* Exceptions and the output file *)

NoErr == [type |-> "none", msg |-> "", has_sample |-> FALSE, sample |-> <<>>]

\* RuntimeError(msg), with no list of titles in the message
RuntimeError(msg) ==
    [type |-> "RuntimeError", msg |-> msg, has_sample |-> FALSE, sample |-> <<>>]

\* a faulty variant of RuntimeErrorWithSample: the message stops before the titles
RuntimeErrorNoSample(msg, smp) == RuntimeError(msg)

\* RuntimeError(f"{msg} Sample release titles: {samples[:12]}")
RuntimeErrorWithSample(msg, smp) ==
    [type |-> "RuntimeError", msg |-> msg, has_sample |-> TRUE, sample |-> Take(smp, 12)]

\* the ValueError of strptime, or of resp.json()
ValueError(msg) ==
    [type |-> "ValueError", msg |-> msg, has_sample |-> FALSE, sample |-> <<>>]

NoFile == [exists |-> FALSE, text |-> <<>>]

----------------------------------------------------------------------------
(* _get_with_retries *)

\* a faulty variant of Delay: the same delay after every failure
DelayFlat(i) == backoff_sec

\* the argument of time.sleep after the failure of attempt i: backoff_sec * (i + 1)
Delay(i) == backoff_sec * (i + 1)

\* a call _get_with_retries(url, headers, retries=r), with the default backoff of 1.2 s
CallGet(who, r, b) ==
    /\ caller' = who
    /\ retries' = r
    /\ backoff_sec' = b
    /\ attempt' = 0
    /\ outcomes' = <<>>
    /\ sleeps' = <<>>
    /\ pc' = "get"

\* the frame of _get_with_retries is gone once its caller goes on
PopGet ==
    /\ caller' = "none"
    /\ retries' = 0
    /\ backoff_sec' = 0
    /\ attempt' = 0
    /\ outcomes' = <<>>
    /\ sleeps' = <<>>

\* one pass of the for loop: requests.get and raise_for_status succeed, resp is
\* returned to the caller
GetOk ==
    /\ pc = "get"
    /\ attempt < retries
    /\ outcomes' = Append(outcomes, "ok")
    /\ pc' = IF caller = "bls" THEN "bls_parse"
              ELSE IF caller = "bea" THEN "bea_parse" ELSE "returned"
    /\ UNCHANGED <<caller, retries, backoff_sec, attempt, sleeps>>
    /\ UNCHANGED <<blsVars, beaVars, mainVars, pureVars>>

\* one pass of the for loop: an exception, caught; sleep, then the next i
GetFail ==
    /\ pc = "get"
    /\ attempt < retries
    /\ outcomes' = Append(outcomes, "fail")
    /\ sleeps' = Append(sleeps, Delay(attempt))
    /\ attempt' = attempt + 1
    /\ UNCHANGED <<pc, caller, retries, backoff_sec>>
    /\ UNCHANGED <<blsVars, beaVars, mainVars, pureVars>>

\* a faulty variant of GetRaise: a "best effort" run that writes what it has when
\* the fetch fails for good
GetRaiseBestEffort ==
    /\ pc = "get"
    /\ attempt >= retries
    /\ err' = RuntimeError("HTTP request failed")
    /\ out_file' = [exists |-> TRUE, text |-> build_ics(events, CHOOSE now \in NowSet : TRUE)]
    /\ pc' = IF caller = "none" THEN "raised" ELSE "aborted"
    /\ UNCHANGED <<getVars, blsVars, beaVars, fomc_tp, events, ics, pureVars>>

\* range(retries) is exhausted: raise RuntimeError, which no caller catches
GetRaise ==
    /\ pc = "get"
    /\ attempt >= retries
    /\ err' = RuntimeError("HTTP request failed")
    /\ pc' = IF caller = "none" THEN "raised" ELSE "aborted"
    /\ UNCHANGED <<getVars, blsVars, beaVars, fomc_tp, events, ics, out_file, pureVars>>

----------------------------------------------------------------------------
(* main() -> build_events() -> fetch_bls_cpi_and_nfp(YEAR) *)

\* main() starts: build_events() calls fetch_bls_cpi_and_nfp, which fetches the page
MainStart ==
    /\ pc = "main"
    /\ CallGet("bls", 4, 12)
    /\ UNCHANGED <<blsVars, beaVars, mainVars, pureVars>>

\* soup.select("table tbody tr"): n rows; none is the "table not found" error
BlsParse ==
    /\ pc = "bls_parse"
    /\ \E n \in 0..MaxRows :
        IF n = 0
        THEN /\ err' = RuntimeError("BLS schedule table not found")
             /\ pc' = "aborted"
             /\ UNCHANGED rows_left
        ELSE /\ rows_left' = n
             /\ pc' = "bls_row"
             /\ UNCHANGED err
    /\ PopGet
    /\ UNCHANGED <<tr, cpi_tp, nfp_tp, samples>>
    /\ UNCHANGED <<beaVars, fomc_tp, events, ics, out_file, pureVars>>

\* one pass of "for tr in rows"
BlsRow ==
    /\ pc = "bls_row"
    /\ rows_left > 0
    /\ \E cols \in RowSet :
        LET step == BlsRowStep(cols) IN
        /\ tr' = cols
        /\ IF step.kind = "raise"
           THEN /\ err' = ValueError("strptime")
                /\ pc' = "aborted"
                /\ UNCHANGED <<rows_left, cpi_tp, nfp_tp, samples>>
           ELSE /\ rows_left' = rows_left - 1
                /\ UNCHANGED <<pc, err>>
                /\ IF step.kind = "skip"
                   THEN UNCHANGED <<cpi_tp, nfp_tp, samples>>
                   ELSE /\ samples' = samples \o step.sample
                        /\ cpi_tp' = IF step.cpi THEN Append(cpi_tp, step.dt_tp) ELSE cpi_tp
                        /\ nfp_tp' = IF step.nfp THEN Append(nfp_tp, step.dt_tp) ELSE nfp_tp
    /\ UNCHANGED <<getVars, beaVars, fomc_tp, events, ics, out_file, pureVars>>

\* after the loop: sort and deduplicate both lists, fail on an empty one, return (the
\* locals tr and samples are gone); build_events then appends the CPI and the NFP
\* events
BlsReturn ==
    /\ pc = "bls_row"
    /\ rows_left = 0
    /\ LET cpi == SortedSet(cpi_tp)
           nfp == SortedSet(nfp_tp)
       IN  IF cpi = <<>>
           THEN /\ err' = RuntimeErrorWithSample("BLS parse failed: CPI list empty.", samples)
                /\ pc' = "aborted"
                /\ cpi_tp' = cpi
                /\ nfp_tp' = nfp
                /\ UNCHANGED <<tr, samples, events>>
           ELSE IF nfp = <<>>
           THEN /\ err' = RuntimeErrorWithSample("BLS parse failed: NFP list empty.", samples)
                /\ pc' = "aborted"
                /\ cpi_tp' = cpi
                /\ nfp_tp' = nfp
                /\ UNCHANGED <<tr, samples, events>>
           ELSE /\ cpi_tp' = cpi
                /\ nfp_tp' = nfp
                /\ samples' = <<>>
                /\ tr' = <<>>
                /\ events' = events \o CpiEvents(cpi) \o NfpEvents(nfp)
                /\ pc' = "fomc"
                /\ UNCHANGED err
    /\ UNCHANGED rows_left
    /\ UNCHANGED <<getVars, beaVars, fomc_tp, ics, out_file, pureVars>>

----------------------------------------------------------------------------
(* build_events(), continued: the FOMC days, then fetch_bea_gdp_and_pio(YEAR) *)

\* fomc_statement_times_tp(YEAR) and its events; then fetch_bea_gdp_and_pio fetches
\* the JSON document
Fomc ==
    /\ pc = "fomc"
    /\ IF YEAR # 2026
       THEN /\ err' = RuntimeError("FOMC dates are hard-coded for 2026 only in this script.")
            /\ pc' = "aborted"
            /\ UNCHANGED <<getVars, fomc_tp, events>>
       ELSE LET tps == fomc_statement_times_tp(FOMC_STATEMENT_DATES_2026) IN
            /\ fomc_tp' = tps
            /\ events' = events \o FomcEvents(tps)
            /\ CallGet("bea", 4, 12)
            /\ UNCHANGED err
    /\ UNCHANGED <<blsVars, beaVars, ics, out_file, pureVars>>

\* resp.json(), the check of the document, and both _find_key calls
BeaParse ==
    /\ pc = "bea_parse"
    /\ \E doc \in DocSet :
        IF doc.kind = "invalid"
        THEN /\ err' = ValueError("resp.json()")
             /\ pc' = "aborted"
             /\ UNCHANGED <<data, gdp_key, pio_key, which>>
        ELSE IF doc.kind # "dict" \/ doc.keys = <<>>
        THEN /\ err' = RuntimeError("BEA release_dates.json unexpected empty or non-dict response.")
             /\ pc' = "aborted"
             /\ UNCHANGED <<data, gdp_key, pio_key, which>>
        ELSE /\ data' = doc.keys
             /\ gdp_key' = _find_key(doc.keys, TARGET_GDP)
             /\ pio_key' = _find_key(doc.keys, TARGET_PIO)
             /\ IF gdp_key' = <<>> \/ pio_key' = <<>>
                THEN /\ err' = RuntimeError("BEA keys not found.")
                     /\ pc' = "aborted"
                     /\ UNCHANGED which
                ELSE /\ which' = "gdp"
                     /\ pc' = "bea_obj"
                     /\ UNCHANGED err
    /\ PopGet
    /\ UNCHANGED <<raw_left, entry, out, gdp_tp, pio_tp>>
    /\ UNCHANGED <<blsVars, fomc_tp, events, ics, out_file, pureVars>>

\* _parse_dates(key) starts: data.get(key, {}) and obj.get("release_dates", []).
\* The keys of the document are not read again.
BeaObj ==
    /\ pc = "bea_obj"
    /\ \E obj \in ObjSet :
        /\ raw_left' = obj.n
        /\ out' = <<>>
        /\ entry' = NoEntry
        /\ data' = <<>>
        /\ pc' = "bea_entry"
    /\ UNCHANGED <<gdp_key, pio_key, which, gdp_tp, pio_tp>>
    /\ UNCHANGED <<getVars, blsVars, mainVars, pureVars>>

\* one pass of "for s in raw_dates"
BeaEntry ==
    /\ pc = "bea_entry"
    /\ raw_left > 0
    /\ \E s \in EntrySet :
        /\ entry' = s
        /\ out' = out \o ParseEntry(s)
        /\ raw_left' = raw_left - 1
    /\ UNCHANGED <<pc, data, gdp_key, pio_key, which, gdp_tp, pio_tp>>
    /\ UNCHANGED <<getVars, blsVars, mainVars, pureVars>>

\* _parse_dates returns sorted(set(out)); out is kept as it was at the return until
\* the next call starts.  After the GDP call comes the PIO call (of the same key, it
\* reads the same list again and returns the same dates).  After the PIO call: fail
\* on an empty list, else return; build_events appends the GDP and the PIO events
\* and sorts all events by start.
BeaReturn ==
    /\ pc = "bea_entry"
    /\ raw_left = 0
    /\ entry' = NoEntry
    /\ LET res == SortedSet(out) IN
       IF which = "gdp" /\ pio_key # gdp_key
       THEN /\ gdp_tp' = res
            /\ which' = "pio"
            /\ pc' = "bea_obj"
            /\ UNCHANGED <<pio_tp, err, events>>
       ELSE LET gdp == IF which = "gdp" THEN res ELSE gdp_tp IN
            /\ gdp_tp' = gdp
            /\ pio_tp' = res
            /\ which' = "pio"
            /\ IF gdp = <<>>
               THEN /\ err' = RuntimeError("BEA parse failed: GDP list empty after filtering by year.")
                    /\ pc' = "aborted"
                    /\ UNCHANGED events
               ELSE IF res = <<>>
               THEN /\ err' = RuntimeError("BEA parse failed: PIO/PCE list empty after filtering by year.")
                    /\ pc' = "aborted"
                    /\ UNCHANGED events
               ELSE /\ events' = SortByStart(events \o GdpEvents(gdp) \o PioEvents(res))
                    /\ pc' = "build_ics"
                    /\ UNCHANGED err
    /\ UNCHANGED <<data, gdp_key, pio_key, raw_left, out>>
    /\ UNCHANGED <<getVars, blsVars, fomc_tp, ics, out_file, pureVars>>

----------------------------------------------------------------------------
(* main(), continued *)

\* ics = build_ics(events)
BuildIcs ==
    /\ pc = "build_ics"
    /\ \E now \in NowSet : ics' = build_ics(events, now)
    /\ pc' = "write"
    /\ UNCHANGED <<getVars, blsVars, beaVars, fomc_tp, events, out_file, err, pureVars>>

\* with open(OUT_FILE, "w", encoding="utf-8") as f: f.write(ics)
WriteOutput ==
    /\ pc = "write"
    /\ out_file' = [exists |-> TRUE, text |-> ics]
    /\ pc' = "done"
    /\ UNCHANGED <<getVars, blsVars, beaVars, fomc_tp, events, ics, err, pureVars>>

InitIdle ==
    /\ caller = "none" /\ retries = 0 /\ backoff_sec = 0 /\ attempt = 0
    /\ outcomes = <<>> /\ sleeps = <<>>
    /\ rows_left = 0 /\ tr = <<>> /\ cpi_tp = <<>> /\ nfp_tp = <<>> /\ samples = <<>>
    /\ fomc_tp = <<>>
    /\ data = <<>> /\ gdp_key = <<>> /\ pio_key = <<>> /\ which = "none"
    /\ raw_left = 0 /\ entry = NoEntry /\ out = <<>> /\ gdp_tp = <<>> /\ pio_tp = <<>>
    /\ events = <<>> /\ ics = <<>> /\ out_file = NoFile /\ err = NoErr

InitPure ==
    /\ line = <<>> /\ folded = <<>>
    /\ dt_in = NoDt /\ dt_out = NoDt
    /\ ev_a = <<>> /\ ev_b = <<>> /\ uid_a = <<>> /\ uid_b = <<>>

\* the state when main() is entered: nothing fetched, no output file
Init == pc = "main" /\ InitIdle /\ InitPure

Next ==
    \/ MainStart
    \/ GetOk
    \/ GetFail
    \/ GetRaise
    \/ BlsParse
    \/ BlsRow
    \/ BlsReturn
    \/ Fomc
    \/ BeaParse
    \/ BeaObj
    \/ BeaEntry
    \/ BeaReturn
    \/ BuildIcs
    \/ WriteOutput

Spec == Init /\ [][Next]_vars

----------------------------------------------------------------------------
(* _get_with_retries on its own, for every retries argument up to MaxRetries *)

\* backoff_sec arguments, in tenths of a second: the default 1.2 s, and 0.5 s
BackoffSet == {12, 5}

InitRetry ==
    /\ pc = "get"
    /\ caller = "none"
    /\ retries \in 0..MaxRetries
    /\ backoff_sec \in BackoffSet
    /\ attempt = 0 /\ outcomes = <<>> /\ sleeps = <<>>
    /\ rows_left = 0 /\ tr = <<>> /\ cpi_tp = <<>> /\ nfp_tp = <<>> /\ samples = <<>>
    /\ fomc_tp = <<>>
    /\ data = <<>> /\ gdp_key = <<>> /\ pio_key = <<>> /\ which = "none"
    /\ raw_left = 0 /\ entry = NoEntry /\ out = <<>> /\ gdp_tp = <<>> /\ pio_tp = <<>>
    /\ events = <<>> /\ ics = <<>> /\ out_file = NoFile /\ err = NoErr
    /\ InitPure

NextRetry == GetOk \/ GetFail \/ GetRaise

\* requests.get returns or raises and time.sleep returns: a call that is under way
\* takes its next step
SpecRetry == InitRetry /\ [][NextRetry]_vars /\ WF_vars(NextRetry)

----------------------------------------------------------------------------
(* _fold_ics_line on its own *)

\* code points the generated lines are made of: letters, the space, and a CJK
\* ideograph of three octets
GenChar(kind, j) ==
    IF kind = 1 THEN 97 + (j % 26)
    ELSE IF kind = 2 THEN (IF j % 5 = 0 THEN 32 ELSE 65 + (j % 26))
    ELSE IF kind = 3 THEN (IF j % 5 = 1 THEN 32 ELSE 48 + (j % 10))
    ELSE IF kind = 4 THEN (IF j % 2 = 0 THEN 32654 ELSE 97 + (j % 26))
    ELSE 32

\* the generated line of n code points of a kind
GenLine(kind, n) == [j \in 1..n |-> GenChar(kind, j)]

InitFold ==
    /\ pc = "fold"
    /\ \E kind \in 1..5, n \in 0..MaxLineLen : line = GenLine(kind, n)
    /\ folded = <<>>
    /\ dt_in = NoDt /\ dt_out = NoDt
    /\ ev_a = <<>> /\ ev_b = <<>> /\ uid_a = <<>> /\ uid_b = <<>>
    /\ InitIdle

\* folded = _fold_ics_line(line)
FoldLine ==
    /\ pc = "fold"
    /\ folded' = _fold_ics_line(line)
    /\ pc' = "folded"
    /\ UNCHANGED <<getVars, blsVars, beaVars, mainVars>>
    /\ UNCHANGED <<line, dt_in, dt_out, ev_a, ev_b, uid_a, uid_b>>

NextFold == FoldLine

SpecFold == InitFold /\ [][NextFold]_vars

----------------------------------------------------------------------------
(* The two conversions from New York to Taipei time, for every day of YEAR *)

\* the day that is n days after January 1 of YEAR
DayOfYear(n) == CivilFromDays(DaysFromCivil(YEAR, 1, 1) + n)

InitTz ==
    /\ pc \in {"tz_release", "tz_fomc"}
    /\ \E n \in 0..(IF IsLeap(YEAR) THEN 365 ELSE 364) :
        dt_in = At(DayOfYear(n), IF pc = "tz_release" THEN 8 ELSE 14,
                   IF pc = "tz_release" THEN 30 ELSE 0)
    /\ dt_out = NoDt
    /\ line = <<>> /\ folded = <<>>
    /\ ev_a = <<>> /\ ev_b = <<>> /\ uid_a = <<>> /\ uid_b = <<>>
    /\ InitIdle

\* to_taipei, from strptime's date on: the release of that day at 08:30 New York time
ConvertRelease ==
    /\ pc = "tz_release"
    /\ dt_out' = AtReleaseTime([kind |-> "dt", year |-> dt_in.year, month |-> dt_in.month,
                                day |-> dt_in.day]).dt
    /\ pc' = "tz_done"
    /\ UNCHANGED <<getVars, blsVars, beaVars, mainVars>>
    /\ UNCHANGED <<line, folded, dt_in, ev_a, ev_b, uid_a, uid_b>>

\* fomc_statement_times_tp for a list of that one day: 14:00 New York time
ConvertFomc ==
    /\ pc = "tz_fomc"
    /\ dt_out' = fomc_statement_times_tp(<< <<dt_in.year, dt_in.month, dt_in.day>> >>)[1]
    /\ pc' = "tz_done"
    /\ UNCHANGED <<getVars, blsVars, beaVars, mainVars>>
    /\ UNCHANGED <<line, folded, dt_in, ev_a, ev_b, uid_a, uid_b>>

NextTz == ConvertRelease \/ ConvertFomc

SpecTz == InitTz /\ [][NextTz]_vars

----------------------------------------------------------------------------
(* The identifiers of two events *)

\* events that differ in any of their five fields: the CPI and the NFP event of each
\* of four starts, each also with the other duration, with no description and with
\* no categories
UidEvents ==
    { [e EXCEPT !.duration_min = d,
                !.description = IF x THEN @ ELSE <<>>,
                !.categories = IF c THEN @ ELSE <<>>] :
        e \in UNION { {CpiEvents(<<t>>)[1], NfpEvents(<<t>>)[1]} :
                        t \in {Taipei(2026, 1, 14, 21, 30), Taipei(2026, 1, 14, 21, 45),
                               Taipei(2026, 1, 14, 20, 30), Taipei(2026, 1, 15, 21, 30)} },
        d \in {DEFAULT_DURATION_MIN, FOMC_DURATION_MIN},
        x \in BOOLEAN,
        c \in BOOLEAN }

InitUid ==
    /\ pc = "uid"
    /\ ev_a \in UidEvents
    /\ ev_b \in UidEvents
    /\ uid_a = <<>> /\ uid_b = <<>>
    /\ line = <<>> /\ folded = <<>> /\ dt_in = NoDt /\ dt_out = NoDt
    /\ InitIdle

\* uid = _stable_uid(ev.summary, ev.start_tp), as _event_to_ics_lines computes it for
\* each of the two events
ComputeUids ==
    /\ pc = "uid"
    /\ uid_a' = _stable_uid(ev_a.summary, ev_a.start_tp)
    /\ uid_b' = _stable_uid(ev_b.summary, ev_b.start_tp)
    /\ pc' = "uid_done"
    /\ UNCHANGED <<getVars, blsVars, beaVars, mainVars>>
    /\ UNCHANGED <<line, folded, dt_in, dt_out, ev_a, ev_b>>

NextUid == ComputeUids

SpecUid == InitUid /\ [][NextUid]_vars

----------------------------------------------------------------------------
(* Properties *)

\* C1: the output file exists only once main() has come through all three
\* data-source steps without an error and holds the whole document; a run that an
\* error ended has created or written no file.
NoPartialOutput ==
    /\ out_file.exists =>
        /\ pc = "done"
        /\ err = NoErr
        /\ cpi_tp # <<>> /\ nfp_tp # <<>> /\ fomc_tp # <<>> /\ gdp_tp # <<>> /\ pio_tp # <<>>
        /\ out_file.text = ics
    /\ err # NoErr => pc = "aborted" /\ out_file = NoFile
    /\ pc = "aborted" => err # NoErr

\* C1, its case: the BEA step fails after the BLS and FOMC steps have succeeded and
\* their events are in the list; there is no file
AbortedAfterTwoSteps ==
    /\ pc = "aborted"
    /\ err.type = "RuntimeError"
    /\ events # <<>> /\ cpi_tp # <<>> /\ nfp_tp # <<>> /\ fomc_tp # <<>>
    /\ out_file = NoFile

\* C2: a run never aborts while rows of the table or entries of a release_dates list
\* remain to be processed: a malformed row or entry is dropped and the loop goes on.
MalformedNeverAborts == pc = "aborted" => rows_left = 0 /\ raw_left = 0

\* the messages of the errors fetch_bls_cpi_and_nfp raises on an empty list
EmptyListErrors == {"BLS parse failed: CPI list empty.", "BLS parse failed: NFP list empty."}

\* fetch_bls_cpi_and_nfp has returned
BlsReturned == pc = "fomc" \/ fomc_tp # <<>> \/ events # <<>>

Nth(S, k) == CHOOSE j \in S : Cardinality({x \in S : x <= j}) = k

\* the indices of s where a CRLF starts
CrlfAt(s) == {i \in 1..Len(s) : OccursAt(CRLF, s, i)}

\* s cut at the CRLFs that start at the indices P
SplitAt(s, P) ==
    [k \in 1..(Cardinality(P) + 1) |->
        SubSeq(s, IF k = 1 THEN 1 ELSE Nth(P, k - 1) + 2,
                  IF k = Cardinality(P) + 1 THEN Len(s) ELSE Nth(P, k) - 1)]

\* the physical lines of s: the text between consecutive CRLF sequences
PhysicalLines(s) == SplitAt(s, CrlfAt(s))

\* every line of ls is at most limit octets long
AllWithinLimit(ls) == \A k \in 1..Len(ls) : Octets(ls[k]) <= limit

\* C4: no physical line of the document build_ics returned is longer than 75 octets.
PhysicalLinesWithinLimit == \A k \in 1..Len(ics) : AllWithinLimit(PhysicalLines(ics[k]))

\* the indices of s that are not part of a CRLF followed by a space
KeptIndices(s) ==
    {j \in 1..Len(s) : ~\E i \in {j - 2, j - 1, j} : i >= 1 /\ OccursAt(CRLF \o <<32>>, s, i)}

\* the elements of s at the indices kept, in their order
Pick(s, kept) == [k \in 1..Cardinality(kept) |-> s[Nth(kept, k)]]

\* s with every CRLF deleted together with the single space that follows it (no two
\* such triples overlap)
Unfold(s) == Pick(s, KeptIndices(s))

\* every line of ls after the first begins with a space
ContinuationsStartWithSpace(ls) ==
    \A k \in 2..Len(ls) : ls[k] # <<>> /\ ls[k][1] = 32

\* the lines ls are a first line and then continuations, each one space followed by
\* the text it continues with: without those spaces they spell s
SpellsWithoutAddedSpaces(ls, s) ==
    Head(ls) \o Flatten([k \in 1..(Len(ls) - 1) |-> Tail(ls[k + 1])]) = s

\* C5: every physical line of _fold_ics_line(L) after the first begins with one added
\* space, unfolding the result gives L again, and a line of at most 75 characters is
\* returned unchanged.
FoldRoundTrip ==
    pc = "folded" =>
        /\ ContinuationsStartWithSpace(PhysicalLines(folded))
        /\ SpellsWithoutAddedSpaces(PhysicalLines(folded), line)
        /\ Unfold(folded) = line
        /\ Len(line) <= limit => folded = line

\* C5, its case: a line folded twice whose text goes on with a space of its own right
\* after the first fold, so that the continuation begins with two spaces
FoldedAtASpace ==
    /\ pc = "folded"
    /\ Len(line) > 2 * limit
    /\ line[limit + 1] = 32
    /\ Len(PhysicalLines(folded)) = 3

\* what _get_with_retries has done so far is what a bounded retry loop does
RetrySafe ==
    /\ Len(outcomes) <= retries
    /\ \A k \in 1..(Len(outcomes) - 1) : outcomes[k] = "fail"
    /\ pc = "returned" <=> outcomes # <<>> /\ outcomes[Len(outcomes)] = "ok"
    /\ pc = "raised" =>
        /\ Len(outcomes) = retries
        /\ \A k \in 1..retries : outcomes[k] = "fail"
        /\ err.type = "RuntimeError"
    /\ Len(sleeps) = Cardinality({k \in 1..Len(outcomes) : outcomes[k] = "fail"})
    /\ \A k \in 1..Len(sleeps) : sleeps[k] = backoff_sec * k
    /\ \A k \in 1..(Len(sleeps) - 1) : sleeps[k] < sleeps[k + 1]

\* C6: _get_with_retries makes at most retries attempts, none after a success, sleeps
\* backoff_sec times the attempt number after each failure, a strictly increasing
\* delay, raises when every attempt has failed, returns only a response that
\* succeeded, and always comes to an end.
RetryBounded == []RetrySafe /\ <>(pc \in {"returned", "raised"})

\* C6, its case: every one of at least three attempts failed and the call has raised
RetriesExhausted ==
    /\ pc = "raised"
    /\ retries >= 3
    /\ Len(sleeps) = retries

\* no two entries of tps denote the same instant, and earlier ones come first
StrictlyAscending(tps) ==
    \A i, j \in 1..Len(tps) : i < j => Instant(tps[i]) < Instant(tps[j])

\* the events of evs with the given title
WithSummary(evs, summary) == LET Is(e) == e.summary = summary IN SelectSeq(evs, Is)

\* the starts of the events with the given title, in the order of the event list
StartsOf(summary) ==
    [k \in 1..Len(WithSummary(events, summary)) |-> WithSummary(events, summary)[k].start_tp]

\* C7: the list of instants each category's events are made from is strictly
\* ascending: sorted, and no instant twice.
CategoryListsStrictlyAscending ==
    /\ \A s \in SummarySet : StrictlyAscending(StartsOf(s))
    /\ events # <<>> => StartsOf(SUMMARY_CPI) = cpi_tp /\ StartsOf(SUMMARY_NFP) = nfp_tp
    /\ StartsOf(SUMMARY_FOMC) = fomc_tp
    /\ StrictlyAscending(gdp_tp) /\ StrictlyAscending(pio_tp)
    /\ pc \in {"build_ics", "write", "done"} =>
        StartsOf(SUMMARY_GDP) = gdp_tp /\ StartsOf(SUMMARY_PIO) = pio_tp

\* C7, its case: the release_dates list read last held the same instant twice, and
\* the events made from it hold it once
DuplicateInstantKeptOnce ==
    /\ pc = "build_ics"
    /\ Len(out) = 2
    /\ Instant(out[1]) = Instant(out[2])
    /\ Len(pio_tp) = 1
    /\ Len(StartsOf(SUMMARY_PIO)) = 1

\* C8: two events get the same identifier exactly when their titles and their starts
\* are the same, whatever their descriptions, categories and durations.
UidDependsOnTitleAndStart ==
    pc = "uid_done" =>
        (uid_a = uid_b <=> ev_a.summary = ev_b.summary /\ ev_a.start_tp = ev_b.start_tp)

\* C8, its case: two events that differ in description, categories and duration, and
\* in nothing else, have got the same identifier
SameUidForDifferentDetails ==
    /\ pc = "uid_done"
    /\ ev_a.summary = ev_b.summary /\ ev_a.start_tp = ev_b.start_tp
    /\ ev_a.description # ev_b.description
    /\ ev_a.categories # ev_b.categories
    /\ ev_a.duration_min # ev_b.duration_min
    /\ uid_a = uid_b

\* New York observes daylight saving time at 08:30 and at 14:00 of a day of 2026:
\* from March 8 to October 31
OnDaylightTime2026(d) ==
    /\ d.year = 2026
    /\ (d.month = 3 /\ d.day >= 8) \/ (d.month > 3 /\ d.month < 11)

\* the number of days of each month of 2026
MonthLengths2026 == <<31, 28, 31, 30, 31, 30, 31, 31, 30, 31, 30, 31>>

\* the calendar date after the date of d, a day of 2026
NextDate2026(d) ==
    IF d.day < MonthLengths2026[d.month]
    THEN [year |-> d.year, month |-> d.month, day |-> d.day + 1]
    ELSE IF d.month < 12 THEN [year |-> d.year, month |-> d.month + 1, day |-> 1]
    ELSE [year |-> d.year + 1, month |-> 1, day |-> 1]

\* the Taipei datetime of the date d at h:mi
TaipeiAt(d, h, mi) == Taipei(d.year, d.month, d.day, h, mi)

\* the instant of a New York wall clock, by the offset in force in 2026
NewYorkInstant2026(d) ==
    WallMinutes(d) + (IF OnDaylightTime2026(d) THEN 240 ELSE 300)

\* C9: 08:30 New York time becomes 21:30 Taipei time of the same date on standard
\* time and 20:30 on daylight saving time; 14:00 becomes 03:00, or 02:00, of the
\* following date; the instant is the same.
ConversionKeepsInstant ==
    pc = "tz_done" =>
        /\ Instant(dt_out) = NewYorkInstant2026(dt_in)
        /\ dt_in.hour = 8 =>
            dt_out = TaipeiAt(dt_in, IF OnDaylightTime2026(dt_in) THEN 20 ELSE 21, 30)
        /\ dt_in.hour = 14 =>
            dt_out = TaipeiAt(NextDate2026(dt_in), IF OnDaylightTime2026(dt_in) THEN 2 ELSE 3, 0)

\* C9, its case: 14:00 of the last day of a month on daylight saving time has become
\* 02:00 of the first day of the next month
RolledOverMonthEnd ==
    /\ pc = "tz_done"
    /\ dt_in.hour = 14 /\ dt_in.month = 3 /\ dt_in.day = 31
    /\ dt_out.month = 4 /\ dt_out.day = 1 /\ dt_out.hour = 2

\* res is the key the three tiers give target: the exact key; else the first key whose
\* normalised form equals the normalised target; else the first key whose normalised
\* form contains it; else none
ResolvesTo(keys, target, res) ==
    IF \E i \in 1..Len(keys) : keys[i] = target
    THEN res = <<target>>
    ELSE IF \E i \in 1..Len(keys) : Norm(keys[i]) = Norm(target)
    THEN \E i \in 1..Len(keys) :
            /\ res = <<keys[i]>>
            /\ Norm(keys[i]) = Norm(target)
            /\ \A j \in 1..(i - 1) : Norm(keys[j]) # Norm(target)
    ELSE IF \E i \in 1..Len(keys) : Contains(Norm(keys[i]), Norm(target))
    THEN \E i \in 1..Len(keys) :
            /\ res = <<keys[i]>>
            /\ Contains(Norm(keys[i]), Norm(target))
            /\ \A j \in 1..(i - 1) : ~Contains(Norm(keys[j]), Norm(target))
    ELSE res = <<>>

\* C10: each of the two keys is resolved by the strongest tier that matches, first key
\* in document order; when one of them is not resolved the extractor raises.
KeyPrecedence ==
    data # <<>> =>
        /\ ResolvesTo(data, TARGET_GDP, gdp_key)
        /\ ResolvesTo(data, TARGET_PIO, pio_key)
        /\ gdp_key = <<>> \/ pio_key = <<>> =>
            pc = "aborted" /\ err.type = "RuntimeError" /\ err.msg = "BEA keys not found."
        /\ gdp_key # <<>> /\ pio_key # <<>> => pc = "bea_obj" /\ err = NoErr

\* C10, its case: the document's first key only contains the GDP target, its second
\* equals it once normalised, and the second is the one resolved
NormEqualBeatsEarlierSubstring ==
    /\ Len(data) = 2
    /\ gdp_key = <<data[2]>>
    /\ data[2] # TARGET_GDP
    /\ Norm(data[2]) = Norm(TARGET_GDP)
    /\ Contains(Norm(data[1]), Norm(TARGET_GDP))
    /\ Norm(data[1]) # Norm(TARGET_GDP)

====
